---- MODULE Spec2Model ----
(***************************************************************************)
(* Model of canvas_lateness.py: the reconciliation engine `process`, the   *)
(* loader `load` with its JSON cache, and the top-level run `main`.        *)
(*                                                                         *)
(* Strings are sequences of character codes and are compared the way       *)
(* Python compares strings (lexicographically).  A timestamp string in the *)
(* uniform Canvas format is the sequence <<hours, seconds, halves>> of its *)
(* fixed-width fields; None / '' is the empty sequence.  A timedelta is an *)
(* integer number of ticks, TicksPerSecond ticks to the second.            *)
(***************************************************************************)
EXTENDS Integers, Sequences, FiniteSets, TLC

VARIABLES
    data,                \* the dict built by load and read by process
    student_identifier,  \* args.student_identifier
    use_cache,           \* args.use_cache
    cache,               \* the cache file: NoFile or the dict it holds
    api,                 \* what the Canvas API serves for the course
    pc,                  \* position of the run
    results,             \* value returned by process
    raised,              \* the exception that ended the run, or "none"
    results_json,        \* the results blob: NoFile or its content
    results_xls,         \* the spreadsheet: NoFile or the rows it was built from
    log                  \* history of the reads, fetches and writes of the run

vars == <<data, student_identifier, use_cache, cache, api, pc, results, raised,
          results_json, results_xls, log>>

-----------------------------------------------------------------------------
(* Bounds of the model *)

MaxStudents == 2
MaxAssignments == 2
MaxSubs == 2

-----------------------------------------------------------------------------
(* Values *)

Empty == <<>>
None == <<>>
Some(v) == <<v>>
\* a file that does not exist, and a file holding `content`
NoFile == [exists |-> FALSE, content |-> <<>>]
File(content) == [exists |-> TRUE, content |-> content]

TicksPerSecond == 2
SecondsPerHour == 3600

\* Python's int(): truncation toward zero
int(num, den) == IF num >= 0 THEN num \div den ELSE -((-num) \div den)

\* Python's string comparison a < b; None and '' (both the empty sequence)
\* order before every other string
RECURSIVE LexLess(_, _)
LexLess(a, b) ==
    IF a = <<>> THEN b # <<>>
    ELSE IF b = <<>> THEN FALSE
    ELSE IF Head(a) # Head(b) THEN Head(a) < Head(b)
    ELSE LexLess(Tail(a), Tail(b))

\* Python's tuple comparison k1 < k2 of two keys of the same length
KeyLess(k1, k2) ==
    \E i \in 1..Len(k1) :
        /\ \A j \in 1..(i - 1) : k1[j] = k2[j]
        /\ LexLess(k1[i], k2[i])

\* sorted(items, key=...): stable, ascending; keys[i] is the key of items[i]
RECURSIVE InsertByKey(_, _)
InsertByKey(x, s) ==
    IF s = <<>> THEN <<x>>
    ELSE IF KeyLess(x[1], Head(s)[1]) THEN <<x>> \o s
    ELSE <<Head(s)>> \o InsertByKey(x, Tail(s))

RECURSIVE SortPairs(_)
SortPairs(s) ==
    IF s = <<>> THEN <<>>
    ELSE InsertByKey(s[Len(s)], SortPairs(SubSeq(s, 1, Len(s) - 1)))

sorted(items, keys) ==
    LET pairs == [i \in 1..Len(items) |-> <<keys[i], items[i]>>]
        out == SortPairs(pairs)
    IN [i \in 1..Len(items) |-> out[i][2]]

\* dateutil.parser.parse(iso).replace(tzinfo=UTC_TZ), as ticks
IsTimestamp(iso) == Len(iso) = 3
Parse(iso) == (iso[1] * SecondsPerHour + iso[2]) * TicksPerSecond + iso[3]

RECURSIVE Concat(_)
Concat(ss) == IF ss = <<>> THEN <<>> ELSE Head(ss) \o Concat(Tail(ss))

RECURSIVE Sum(_)
Sum(s) == IF s = <<>> THEN 0 ELSE Head(s) + Sum(Tail(s))

-----------------------------------------------------------------------------
(* process *)

assignment_ids(d) == {d.assignments[i].id : i \in 1..Len(d.assignments)}

student_identifier_choices ==
    [huid |-> "sis_user_id", name |-> "sortable_name"]

student_descriptor_default_name(ident) ==
    IF ident \in DOMAIN student_identifier_choices
    THEN student_identifier_choices[ident]
    ELSE student_identifier_choices["name"]

\* student_identifier_choices.get(student_identifier, ...['huid'])
student_descriptor(ident) ==
    IF ident \in DOMAIN student_identifier_choices
    THEN student_identifier_choices[ident]
    ELSE student_identifier_choices["huid"]

\* the sub_items of data['submissions'] that pass the `continue` filter
kept_sub_items(d) ==
    SelectSeq(d.submissions, LAMBDA e : e.assignment_id \in assignment_ids(d))

\* sorted(sub_item['submissions'], key=(user_id, assignment_id, submitted_at))
sort_submissions(subs) ==
    sorted(subs, [i \in 1..Len(subs) |->
        <<<<subs[i].user_id>>, <<subs[i].assignment_id>>, subs[i].submitted_at>>])

\* submissions_by_assignment: a later sub_item of the same id replaces an earlier one
submissions_by_assignment(d) ==
    LET kept == kept_sub_items(d)
        ids == {kept[i].assignment_id : i \in 1..Len(kept)}
        last(aid) == CHOOSE i \in 1..Len(kept) :
                        /\ kept[i].assignment_id = aid
                        /\ \A j \in (i + 1)..Len(kept) : kept[j].assignment_id # aid
    IN [aid \in ids |-> sort_submissions(kept[last(aid)].submissions)]

submissions_by_student_only(d, student_id, assignment_id) ==
    LET mine(e) == SelectSeq(sort_submissions(e.submissions),
                             LAMBDA s : s.user_id = student_id)
    IN Concat([i \in 1..Len(d.submissions) |-> mine(d.submissions[i])])

\* submissions_by_student.get(student_id, {}).get(assignment_id, [])
submissions_by_student(d, student_id, assignment_id) ==
    LET kept == kept_sub_items(d)
        mine(e) == IF e.assignment_id = assignment_id
                   THEN SelectSeq(sort_submissions(e.submissions),
                                  LAMBDA s : s.user_id = student_id)
                   ELSE <<>>
    IN Concat([i \in 1..Len(kept) |-> mine(kept[i])])

sort_students(d, ident) ==
    sorted(d.students, [i \in 1..Len(d.students) |->
        <<d.students[i][student_descriptor(ident)]>>])

group_of(a) ==
    IF "assignment_group_id" \in DOMAIN a THEN a.assignment_group_id ELSE 0

sort_assignments(d) ==
    sorted(d.assignments, [i \in 1..Len(d.assignments) |->
        <<<<group_of(d.assignments[i])>>, <<d.assignments[i].position>>>>])

skipped_ignoring_due(assignment_subs, a) ==
    Len(assignment_subs) = 0

\* the `continue` of the inner loop
skipped(assignment_subs, a) ==
    Len(assignment_subs) = 0 \/ a.due_at = Empty

sub_date_iso_first(student_assignment_subs) ==
    IF Len(student_assignment_subs) > 0
    THEN student_assignment_subs[1].submitted_at
    ELSE Empty

\* the last submission attempt of the student, '' when there is none
sub_date_iso(student_assignment_subs) ==
    IF Len(student_assignment_subs) > 0
    THEN student_assignment_subs[Len(student_assignment_subs)].submitted_at
    ELSE Empty

\* time_delta in ticks, None unless both dates were parsed
time_delta(due_date_iso, sub_iso) ==
    IF due_date_iso # Empty /\ sub_iso # Empty
    THEN Some(Parse(sub_iso) - Parse(due_date_iso))
    ELSE None

time_delta_seconds_or_zero(delta) ==
    IF delta = None THEN Some(0) ELSE Some(int(delta[1], TicksPerSecond))

\* time_delta_seconds = int(time_delta.total_seconds())
time_delta_seconds(delta) ==
    IF delta = None THEN None ELSE Some(int(delta[1], TicksPerSecond))

lateness_added_signed(delta) ==
    IF delta # None THEN delta[1] ELSE 0

lateness_added_truncated(delta) ==
    IF delta # None /\ delta[1] > 0
    THEN int(delta[1], TicksPerSecond) * TicksPerSecond
    ELSE 0

\* what a pass of the inner loop adds to total_lateness
lateness_added(delta) ==
    IF delta # None /\ delta[1] > 0 THEN delta[1] ELSE 0

\* the exception raised by one pass of the inner loop, "none" when it completes
cell_error(d, by_assignment, student, a) ==
    IF a.id \notin DOMAIN by_assignment THEN "KeyError"
    ELSE IF skipped(by_assignment[a.id], a) THEN "none"
    ELSE IF a.due_at # Empty /\ ~IsTimestamp(a.due_at) THEN "ValueError"
    ELSE LET iso == sub_date_iso(submissions_by_student(d, student.id, a.id))
         IN IF iso # Empty /\ ~IsTimestamp(iso) THEN "ValueError" ELSE "none"

\* the dict appended to student_result['assignments']
assignment_result(a, iso) ==
    [assignment_id |-> a.id,
     due_date_iso |-> a.due_at,
     submission_date_iso |-> iso,
     time_delta_seconds |-> time_delta_seconds(time_delta(a.due_at, iso))]

\* total_lateness in ticks after the inner loop; isos[i] is the submission
\* date found for shown[i]
total_lateness(shown, isos) ==
    Sum([i \in 1..Len(shown) |->
        lateness_added(time_delta(shown[i].due_at, isos[i]))])

student_result(d, ident, student, shown) ==
    LET isos == [i \in 1..Len(shown) |->
                    sub_date_iso(submissions_by_student(d, student.id,
                                                        shown[i].id))]
        total == total_lateness(shown, isos)
    IN [student_id |-> student.id,
        student_name |-> student[student_descriptor(ident)],
        assignments |->
            [i \in 1..Len(shown) |-> assignment_result(shown[i], isos[i])],
        total_lateness_seconds |-> int(total, TicksPerSecond),
        total_lateness_hours |-> int(total, TicksPerSecond * SecondsPerHour)]

\* process: the exception that ends it ("none" when it returns) and the
\* value it returns
process(d, ident) ==
    LET ss == sort_students(d, ident)
        as == sort_assignments(d)
        by_assignment == submissions_by_assignment(d)
        errs == Concat([i \in 1..Len(ss) |->
                    [j \in 1..Len(as) |->
                        cell_error(d, by_assignment, ss[i], as[j])]])
        bad == SelectSeq(errs, LAMBDA e : e # "none")
    IN IF bad # <<>>
       THEN [raised |-> Head(bad), value |-> <<>>]
       ELSE LET shown == SelectSeq(as,
                            LAMBDA a : ~skipped(by_assignment[a.id], a))
            IN [raised |-> "none",
                value |-> [i \in 1..Len(ss) |->
                              student_result(d, ident, ss[i], shown)]]

-----------------------------------------------------------------------------
(* Inputs of process *)

\* sequences over S of length at most n
SeqsUpTo(S, n) == UNION {[1..k -> S] : k \in 0..n}

Due == <<1, 0, 0>>

\* the due dates of m assignments, of which at most one has none
DueDates(m) ==
    {[i \in 1..m |-> IF i = nodue THEN Empty ELSE Due] : nodue \in 0..m}
\* n students whose identifiers sort in the order they were fetched
PlainStudents(n) ==
    [i \in 1..n |-> [id |-> i, sis_user_id |-> <<i>>, sortable_name |-> <<i>>]]

\* assignments without a group, positioned in the order they were fetched
PlainAssignments(due) ==
    [i \in 1..Len(due) |-> [id |-> i, position |-> i, due_at |-> due[i]]]

\* 1.5 s before Due and 3600.5 s after it
Early == <<0, 3598, 1>>
Late == <<2, 0, 1>>
SubStamps == {Empty, Early, Late}

\* the submission records of the inputs: any student on any assignment at
\* any time, a user who is not a student of the course on any assignment,
\* and any student on an assignment id that is not in data['assignments']
SubmissionRecords(n, m) ==
    [user_id : 1..n, assignment_id : 1..m, submitted_at : SubStamps]
    \cup [user_id : {n + 1}, assignment_id : 1..m, submitted_at : {Late}]
    \cup [user_id : 1..n, assignment_id : {m + 1}, submitted_at : {Late}]

\* data['submissions']: one sub_item per id of `present`, in ascending order
\* of the id, holding the records of `flat` made for it, in their order
SubItems(present, flat) ==
    [i \in 1..Cardinality(present) |->
        LET aid == CHOOSE a \in present :
                       Cardinality({b \in present : b < a}) = i - 1
        IN [assignment_id |-> aid,
            submissions |-> SelectSeq(flat, LAMBDA s : s.assignment_id = aid)]]

\* the ids that have a sub_item: those with records and, when the
\* submissions were fetched for the same assignments (api_get_submissions
\* makes one sub_item per assignment id), every assignment id
Present(m, flat, complete) ==
    {flat[i].assignment_id : i \in 1..Len(flat)}
    \cup (IF complete THEN 1..m ELSE {})

-----------------------------------------------------------------------------
(* process called on its own *)

InitProcess ==
    /\ \E n \in 0..MaxStudents, m \in 0..MaxAssignments :
         \E due \in DueDates(m),
            flat \in SeqsUpTo(SubmissionRecords(n, m), MaxSubs),
            complete \in BOOLEAN :
             data = [students |-> PlainStudents(n),
                     assignments |-> PlainAssignments(due),
                     submissions |->
                         SubItems(Present(Len(due), flat, complete), flat)]
    /\ student_identifier = "huid"
    /\ use_cache = FALSE
    /\ cache = NoFile
    /\ api = NoFile
    /\ pc = "call"
    /\ results = <<>>
    /\ raised = "none"
    /\ results_json = NoFile
    /\ results_xls = NoFile
    /\ log = <<>>

Call_process ==
    /\ pc = "call"
    /\ \E out \in {process(data, student_identifier)} :
          /\ results' = out.value
          /\ raised' = out.raised
          /\ pc' = IF out.raised = "none" THEN "returned" ELSE "raised"
    /\ UNCHANGED <<data, student_identifier, use_cache, cache, api,
                   results_json, results_xls, log>>

Spec == InitProcess /\ [][Call_process]_vars

-----------------------------------------------------------------------------
(* process called on inputs that differ in their sort keys *)

\* "ab" and "b": the shorter string is the greater one
Keys == {<<1, 2>>, <<2>>}

KeyedStudents(sis, nm) ==
    [i \in 1..Len(sis) |->
        [id |-> i, sis_user_id |-> sis[i], sortable_name |-> nm[i]]]

\* an assignment without assignment_group_id, or one of group 1
Groups == {None, Some(1)}
Positions == {1, 2}

KeyedAssignments(grp, pos) ==
    [i \in 1..Len(grp) |->
        IF grp[i] = None
        THEN [id |-> i, position |-> pos[i], due_at |-> Due]
        ELSE [id |-> i, position |-> pos[i], due_at |-> Due,
              assignment_group_id |-> grp[i][1]]]

\* no submission at all, or one by the first student for one assignment,
\* or one by the first student for every assignment
FewSubmissions(n, m) ==
    LET late(a) == [user_id |-> 1, assignment_id |-> a, submitted_at |-> Late]
    IN IF n = 0 THEN {<<>>}
       ELSE {<<>>, [a \in 1..m |-> late(a)]} \cup {<<late(a)>> : a \in 1..m}

InitOrder ==
    /\ \E n \in 0..MaxStudents, m \in 0..MaxAssignments :
         \E sis \in [1..n -> Keys], nm \in [1..n -> Keys],
            grp \in [1..m -> Groups], pos \in [1..m -> Positions],
            flat \in FewSubmissions(n, m) :
             data = [students |-> KeyedStudents(sis, nm),
                     assignments |-> KeyedAssignments(grp, pos),
                     submissions |-> SubItems(Present(m, flat, TRUE), flat)]
    /\ student_identifier \in {"huid", "name", "email"}
    /\ use_cache = FALSE
    /\ cache = NoFile
    /\ api = NoFile
    /\ pc = "call"
    /\ results = <<>>
    /\ raised = "none"
    /\ results_json = NoFile
    /\ results_xls = NoFile
    /\ log = <<>>

SpecOrder == InitOrder /\ [][Call_process]_vars

-----------------------------------------------------------------------------
(* load and main *)

EmptyDict == <<>>
Collections == {"students", "assignments", "submissions"}

\* cache_read(filename) or {}
cache_read(file) == IF file.exists THEN file.content ELSE EmptyDict

cache_write_skipped(file, d) == file

\* cache_write(filename, data): the file afterwards
cache_write(file, d) == File(d)

\* api_get_submissions: one sub_item per assignment id, in their order
api_get_submissions(served, ids) ==
    [i \in 1..Len(ids) |->
        [assignment_id |-> ids[i], submissions |-> served[ids[i]]]]

\* what the API call for a collection returns, given the data loaded so far
api_get(served, d, what) ==
    IF what = "submissions"
    THEN api_get_submissions(served.submissions,
            [i \in 1..Len(d.assignments) |-> d.assignments[i].id])
    ELSE served[what]

\* whether fetching the collection makes a request, which may fail:
\* api_get_submissions makes one request per assignment
calls_api(d, what) == what = "submissions" => Len(d.assignments) > 0

no_students_never(d) == FALSE

\* len(data['students']) == 0
no_students(d) == Len(d.students) = 0

\* a timestamp dateutil cannot parse
Malformed == <<7>>

\* what the API serves for the submissions of assignment aid: nothing, a
\* late submission of student 1, or one with a malformed time
ServedSubmissions(aid) ==
    {<<>>} \cup
    {<<[user_id |-> 1, assignment_id |-> aid, submitted_at |-> t]>> :
        t \in {Late, Malformed}}

\* the courses the API serves
Courses ==
    {[students |-> PlainStudents(n),
      assignments |-> PlainAssignments([i \in 1..m |-> Due]),
      submissions |-> [aid \in 1..MaxAssignments |->
                          IF aid = 1 THEN first ELSE <<>>]] :
        n \in 0..MaxStudents, m \in 0..MaxAssignments,
        first \in ServedSubmissions(1)}

\* a cache file holds some of the collections of a course; its
\* submissions are the sub_items fetched for the assignments
\* the API served at the time
CachedCourse(c) ==
    [c EXCEPT !.submissions =
        api_get_submissions(c.submissions,
            [i \in 1..Len(c.assignments) |-> c.assignments[i].id])]

InitMain ==
    /\ api \in Courses
    /\ \E c \in Courses, keys \in SUBSET Collections, exists \in BOOLEAN :
         cache = IF exists THEN File([k \in keys |-> CachedCourse(c)[k]])
                 ELSE NoFile
    /\ use_cache \in BOOLEAN
    /\ student_identifier \in {"huid", "name"}
    /\ data = EmptyDict
    /\ pc = "start"
    /\ results = <<>>
    /\ raised = "none"
    /\ results_json = NoFile
    /\ results_xls = NoFile
    /\ log = <<>>

Logged(op, keys) == Append(log, [op |-> op, keys |-> keys])

\* load, lines 71-74
Load_read_cache ==
    /\ pc = "start"
    /\ IF use_cache
       THEN /\ data' = cache_read(cache)
            /\ log' = Logged("read", DOMAIN cache_read(cache))
       ELSE /\ data' = EmptyDict
            /\ log' = log
    /\ pc' = "students"
    /\ UNCHANGED <<student_identifier, use_cache, cache, api, results, raised,
                   results_json, results_xls>>

\* one `if ... not in data` block of load: the fetch and savecache(), or
\* the exception of the fetch
Load_collection(what, next) ==
    /\ pc = what
    /\ \/ /\ what \in DOMAIN data
          /\ pc' = next
          /\ log' = IF next = "loaded" THEN Logged("load_returned", DOMAIN data)
                    ELSE log
          /\ UNCHANGED <<data, cache, raised>>
       \/ /\ what \notin DOMAIN data
          /\ LET d == [k \in DOMAIN data \cup {what} |->
                          IF k = what THEN api_get(api, data, what)
                          ELSE data[k]]
                 written == Append(Logged("fetch", {what}),
                                [op |-> "write", keys |-> DOMAIN d])
             IN /\ data' = d
                /\ cache' = cache_write(cache, d)
                /\ log' = IF next = "loaded"
                          THEN Append(written,
                                [op |-> "load_returned", keys |-> DOMAIN d])
                          ELSE written
          /\ pc' = next
          /\ raised' = raised
       \/ /\ what \notin DOMAIN data
          /\ calls_api(data, what)
          /\ raised' = "TransportError"
          /\ pc' = "aborted"
          /\ log' = Logged("fail", {what})
          /\ UNCHANGED <<data, cache>>
    /\ UNCHANGED <<student_identifier, use_cache, api, results, results_json,
                   results_xls>>

Load_students == Load_collection("students", "assignments")
Load_assignments == Load_collection("assignments", "submissions")
Load_submissions == Load_collection("submissions", "loaded")

\* main, lines 321-322
Main_no_students ==
    /\ pc = "loaded"
    /\ no_students(data)
    /\ pc' = "done"
    /\ UNCHANGED <<data, student_identifier, use_cache, cache, api, results,
                   raised, results_json, results_xls, log>>

\* main, line 324
Main_process ==
    /\ pc = "loaded"
    /\ ~no_students(data)
    /\ \E out \in {process(data, student_identifier)} :
          IF out.raised = "none"
          THEN /\ results' = out.value
               /\ raised' = raised
               /\ pc' = "processed"
               /\ log' = Append(Logged("process_called", {}),
                           [op |-> "process_returned", keys |-> {}])
          ELSE /\ raised' = out.raised
               /\ results' = results
               /\ pc' = "aborted"
               /\ log' = Logged("process_called", {})
    /\ UNCHANGED <<data, student_identifier, use_cache, cache, api,
                   results_json, results_xls>>

\* main, line 325
Main_write_results ==
    /\ pc = "processed"
    /\ results_json' = cache_write(results_json, results)
    /\ pc' = "written"
    /\ UNCHANGED <<data, student_identifier, use_cache, cache, api, results,
                   raised, results_xls, log>>

\* main, line 326
Main_create_spreadsheet ==
    /\ pc = "written"
    /\ results_xls' = File(results)
    /\ pc' = "done"
    /\ UNCHANGED <<data, student_identifier, use_cache, cache, api, results,
                   raised, results_json, log>>

NextMain ==
    \/ Load_read_cache
    \/ Load_students
    \/ Load_assignments
    \/ Load_submissions
    \/ Main_no_students
    \/ Main_process
    \/ Main_write_results
    \/ Main_create_spreadsheet

SpecMain == InitMain /\ [][NextMain]_vars

-----------------------------------------------------------------------------
(* Properties of process *)

Returned == pc = "returned"

\* the sub_items of the input made for an assignment id
SubItemsOf(aid) ==
    {i \in 1..Len(data.submissions) : data.submissions[i].assignment_id = aid}

\* the submission records of the input for an assignment, from any user
RecordsOf(aid) ==
    UNION {{<<i, k>> : k \in 1..Len(data.submissions[i].submissions)} :
           i \in SubItemsOf(aid)}

Record(ik) == data.submissions[ik[1]].submissions[ik[2]]

StudentIds == {data.students[i].id : i \in 1..Len(data.students)}

\* the records a student made for an assignment
RecordsBy(sid, aid) == {ik \in RecordsOf(aid) : Record(ik).user_id = sid}

AssignmentOf(aid) ==
    data.assignments[CHOOSE i \in 1..Len(data.assignments) :
                        data.assignments[i].id = aid]

ReportedIds(r) == {r.assignments[i].assignment_id : i \in 1..Len(r.assignments)}

Reports == {results[i] : i \in 1..Len(results)}

Rows(r) == {r.assignments[i] : i \in 1..Len(r.assignments)}

\* the time of the latest attempt among a set of records, '' when none of
\* them carries a time
LatestStamp(iks) ==
    LET timed == {ik \in iks : Record(ik).submitted_at # Empty}
    IN IF timed = {} THEN Empty
       ELSE Record(CHOOSE ik \in timed : \A other \in timed :
                Parse(Record(other).submitted_at)
                    <= Parse(Record(ik).submitted_at)).submitted_at

\* the exact delta of a reported row, in ticks
RowDelta(row) ==
    Parse(row.submission_date_iso) - Parse(row.due_date_iso)

\* C1 as stated: every student's list holds exactly the assignments that
\* have a due timestamp and at least one submission made by a student of
\* the students collection.
C1_SkipByStudentSubmissions ==
    Returned =>
        \A r \in Reports :
            ReportedIds(r) =
                {a \in assignment_ids(data) :
                    /\ AssignmentOf(a).due_at # Empty
                    /\ \E sid \in StudentIds : RecordsBy(sid, a) # {}}

\* C1 (amended): every student's list holds, once each, exactly the
\* assignments that have a due timestamp and at least one submission record
\* from any user, whether or not that user is in the students collection.
C1_GlobalSkip ==
    Returned =>
        \A r \in Reports :
            /\ ReportedIds(r) =
                {a \in assignment_ids(data) :
                    AssignmentOf(a).due_at # Empty /\ RecordsOf(a) # {}}
            /\ Cardinality(ReportedIds(r)) = Len(r.assignments)

C1_Witness ==
    /\ Returned
    /\ Len(results) = 2
    /\ \E a, b \in assignment_ids(data) :
        /\ RecordsBy(results[1].student_id, a) # {}
        /\ RecordsBy(results[2].student_id, a) = {}
        /\ a \in ReportedIds(results[1]) \cap ReportedIds(results[2])
        /\ \E row \in Rows(results[2]) :
            row.assignment_id = a /\ row.submission_date_iso = Empty
        /\ RecordsOf(b) = {}
        /\ b \notin ReportedIds(results[1]) \cup ReportedIds(results[2])

\* C2 as stated: total_lateness_seconds is the sum of the time_delta_seconds
\* values that are present and strictly positive.
C2_TotalIsSumOfReportedSeconds ==
    Returned =>
        \A r \in Reports :
            r.total_lateness_seconds =
                Sum([i \in 1..Len(r.assignments) |->
                    LET s == r.assignments[i].time_delta_seconds
                    IN IF s # None /\ s[1] > 0 THEN s[1] ELSE 0])

\* C2 (amended): total_lateness_seconds is the whole-second truncation of
\* the sum of the exact (untruncated) deltas that are strictly positive;
\* deltas that are zero or negative add nothing and are reported truncated
\* toward zero.
C2_TotalIsTruncatedSumOfExactDeltas ==
    Returned =>
        \A r \in Reports :
            /\ r.total_lateness_seconds =
                int(Sum([i \in 1..Len(r.assignments) |->
                        LET row == r.assignments[i]
                        IN IF row.submission_date_iso # Empty
                              /\ RowDelta(row) > 0
                           THEN RowDelta(row) ELSE 0]),
                    TicksPerSecond)
            /\ \A row \in Rows(r) :
                row.submission_date_iso # Empty =>
                    row.time_delta_seconds =
                        Some(int(RowDelta(row), TicksPerSecond))

C2_Witness ==
    /\ Returned
    /\ \E r \in Reports :
        /\ r.total_lateness_seconds = 2 * SecondsPerHour + 1
        /\ \E row \in Rows(r) : row.time_delta_seconds = Some(SecondsPerHour)

\* C3: total_lateness_seconds and total_lateness_hours are never negative.
C3_NonNegativeTotal ==
    Returned =>
        \A r \in Reports :
            r.total_lateness_seconds >= 0 /\ r.total_lateness_hours >= 0

C3_Witness ==
    /\ Returned
    /\ \E r \in Reports :
        /\ r.total_lateness_seconds = 0
        /\ Cardinality({row \in Rows(r) : row.time_delta_seconds = Some(-1)}) = 2

\* C4: the submission time and the delta reported for a (student,
\* assignment) pair are those of the student's submission with the greatest
\* submission timestamp, whatever the order of the attempts in the input.
C4_MostRecentSubmission ==
    Returned =>
        \A r \in Reports : \A row \in Rows(r) :
            LET mine == RecordsBy(r.student_id, row.assignment_id)
            IN mine # {} =>
                /\ row.submission_date_iso = LatestStamp(mine)
                /\ LatestStamp(mine) # Empty =>
                    row.time_delta_seconds =
                        Some(int(Parse(LatestStamp(mine))
                                    - Parse(row.due_date_iso), TicksPerSecond))

C4_Witness ==
    /\ Returned
    /\ \E r \in Reports : \E row \in Rows(r) :
        \E i \in SubItemsOf(row.assignment_id) :
            LET subs == data.submissions[i].submissions
            IN /\ Len(subs) = 2
               /\ subs[1].user_id = r.student_id
               /\ subs[2].user_id = r.student_id
               /\ subs[1].submitted_at = Late
               /\ subs[2].submitted_at = Early
               /\ row.submission_date_iso = Late

\* C5: a reported entry has a time_delta_seconds exactly when the student
\* has a submission record whose timestamp is not empty (the due timestamp
\* of a reported assignment is never empty); otherwise it is null, which
\* is not the value 0, and a student whose entries are all null has a total
\* of 0.
C5_DeltaPresentIffSubmitted ==
    Returned =>
        \A r \in Reports :
            /\ \A row \in Rows(r) :
                /\ row.due_date_iso # Empty
                /\ row.time_delta_seconds # None <=>
                    LatestStamp(RecordsBy(r.student_id, row.assignment_id))
                        # Empty
            /\ (\A row \in Rows(r) : row.time_delta_seconds = None) =>
                    r.total_lateness_seconds = 0

C5_Witness ==
    /\ Returned
    /\ \E r \in Reports : \E row1, row2 \in Rows(r) :
        /\ RecordsBy(r.student_id, row1.assignment_id) = {}
        /\ row1.time_delta_seconds = None
        /\ RecordsBy(r.student_id, row2.assignment_id) # {}
        /\ row2.submission_date_iso = Empty
        /\ row2.time_delta_seconds = None

\* the index of a student, or of an assignment, in the input
StudentIndex(sid) ==
    CHOOSE i \in 1..Len(data.students) : data.students[i].id = sid

AssignmentIndex(aid) ==
    CHOOSE i \in 1..Len(data.assignments) : data.assignments[i].id = aid

\* the field the identifier policy selects
PolicyField ==
    IF student_identifier = "name" THEN "sortable_name" ELSE "sis_user_id"

\* a appears no later than b when ordered by (group, 0 if absent; position)
AssignmentOrdered(a, b) ==
    LET ga == IF "assignment_group_id" \in DOMAIN a
              THEN a.assignment_group_id ELSE 0
        gb == IF "assignment_group_id" \in DOMAIN b
              THEN b.assignment_group_id ELSE 0
    IN ga < gb \/ (ga = gb /\ a.position <= b.position)

\* C6: one report per input student, ascending by the field the policy
\* selects (sis_user_id for huid and for unrecognized values, sortable_name
\* for name), ties in input order, named by that field; rows ascending by
\* (group, position), ties in input order.  The order is fixed by the
\* students, the assignments and the policy alone.
C6_OutputOrdering ==
    Returned =>
        /\ Len(results) = Len(data.students)
        /\ {results[i].student_id : i \in 1..Len(results)} = StudentIds
        /\ \A i \in 1..Len(results) :
            results[i].student_name =
                data.students[StudentIndex(results[i].student_id)][PolicyField]
        /\ \A i, j \in 1..Len(results) :
            i < j =>
                LET si == StudentIndex(results[i].student_id)
                    sj == StudentIndex(results[j].student_id)
                    ki == data.students[si][PolicyField]
                    kj == data.students[sj][PolicyField]
                IN /\ ~LexLess(kj, ki)
                   /\ ki = kj => si < sj
        /\ \A r \in Reports : \A i, j \in 1..Len(r.assignments) :
            i < j =>
                LET a == AssignmentOf(r.assignments[i].assignment_id)
                    b == AssignmentOf(r.assignments[j].assignment_id)
                IN /\ AssignmentOrdered(a, b)
                   /\ (AssignmentOrdered(b, a) =>
                        AssignmentIndex(a.id) < AssignmentIndex(b.id))

C6_Witness ==
    /\ Returned
    /\ student_identifier = "email"
    /\ Len(results) = 2
    /\ results[1].student_id = 2
    /\ LexLess(data.students[1].sortable_name, data.students[2].sortable_name)
    /\ Len(results[1].assignments) = 2
    /\ results[1].assignments[1].assignment_id = 2
    /\ AssignmentOf(2).position = 2
    /\ AssignmentOf(1).position = 1

\* the input without the sub_items whose assignment id is not the id of an
\* assignment
WithoutUnknownSubItems(d) ==
    [d EXCEPT !.submissions =
        SelectSeq(d.submissions,
            LAMBDA e : \E i \in 1..Len(d.assignments) :
                d.assignments[i].id = e.assignment_id)]

\* C7: sub_items whose assignment id is not the id of any assignment are
\* ignored: process gives the same outcome on the input with them removed.
C7_UnknownAssignmentsIgnored ==
    LET stripped == WithoutUnknownSubItems(data)
    IN (pc # "call" /\ stripped # data) =>
        \E out \in {process(stripped, student_identifier)} :
            results = out.value /\ raised = out.raised

C7_Witness ==
    /\ Returned
    /\ WithoutUnknownSubItems(data) # data
    /\ \E r \in Reports : \E row \in Rows(r) :
        /\ row.time_delta_seconds = Some(-1)
        /\ \E i \in 1..Len(data.submissions) :
            /\ data.submissions[i].assignment_id \notin assignment_ids(data)
            /\ \E k \in 1..Len(data.submissions[i].submissions) :
                data.submissions[i].submissions[k].user_id = r.student_id

\* C10 as stated: process returns, raising nothing, on every input whose
\* timestamps are well formed, also when an assignment has no sub_item.
C10_NeverRaises ==
    pc # "raised"

-----------------------------------------------------------------------------
(* Properties of load and main *)

HasLogged(op) == \E i \in 1..Len(log) : log[i].op = op

\* the collections fetched so far, and those the run read from the cache
Fetched == UNION {log[i].keys : i \in {j \in 1..Len(log) : log[j].op = "fetch"}}
ReadFromCache ==
    UNION {log[i].keys : i \in {j \in 1..Len(log) : log[j].op = "read"}}

FetchRank(keys) ==
    IF keys = {"students"} THEN 1 ELSE IF keys = {"assignments"} THEN 2 ELSE 3

\* C8: the results blob and the spreadsheet are written only after load has
\* returned, with a non-empty students collection, and after process has
\* returned; a run ended by an exception of a fetch or of process has written
\* neither, and a run that finds no students ends normally without calling
\* process and without writing either.
C8_NoPartialReport ==
    /\ (results_json.exists \/ results_xls.exists) =>
        /\ HasLogged("load_returned")
        /\ Len(data.students) > 0
        /\ HasLogged("process_returned")
        /\ results_json = File(results)
    /\ raised # "none" =>
        /\ pc = "aborted"
        /\ ~results_json.exists /\ ~results_xls.exists
    /\ (HasLogged("load_returned") /\ Len(data.students) = 0) =>
        /\ pc \in {"loaded", "done"}
        /\ ~HasLogged("process_called")
        /\ raised = "none"
        /\ ~results_json.exists /\ ~results_xls.exists

C8_Witness ==
    /\ pc = "done"
    /\ Len(data.students) > 0
    /\ results_json = File(results)
    /\ results_xls = File(results)

\* C9: the cache is read only when use_cache is set, and then before any
\* fetch; the collections are fetched in the order students, assignments,
\* submissions, and only those absent from the data read from the cache;
\* each successful fetch is followed at once by a write of every collection
\* obtained so far, so that the cache holds every collection fetched
\* earlier when a later fetch fails, and equals the returned data when load
\* returns.
C9_CacheProtocol ==
    /\ \A i \in 1..Len(log) : log[i].op = "read" => (use_cache /\ i = 1)
    /\ (use_cache /\ pc # "start") => log[1].op = "read"
    /\ \A i, j \in 1..Len(log) :
        (i < j /\ log[i].op = "fetch" /\ log[j].op \in {"fetch", "fail"}) =>
            FetchRank(log[i].keys) < FetchRank(log[j].keys)
    /\ \A i \in 1..Len(log) :
        log[i].op \in {"fetch", "fail"} => log[i].keys \cap ReadFromCache = {}
    /\ \A i \in 1..Len(log) :
        log[i].op = "fetch" =>
            /\ i < Len(log)
            /\ log[i + 1].op = "write"
            /\ log[i + 1].keys =
                ReadFromCache \cup UNION {log[j].keys :
                    j \in {k \in 1..i : log[k].op = "fetch"}}
    /\ Fetched # {} =>
        /\ cache.exists
        /\ \A k \in Fetched : k \in DOMAIN cache.content
                                /\ cache.content[k] = data[k]
    /\ HasLogged("load_returned") =>
        /\ DOMAIN data = Collections \cup ReadFromCache
        /\ cache = File(data)

C9_Witness ==
    /\ raised = "TransportError"
    /\ log[Len(log)].keys = {"submissions"}
    /\ Fetched = {"assignments"}
    /\ ReadFromCache = {"students"}
    /\ cache = File(data)
    /\ DOMAIN data = {"students", "assignments"}

====
